---- MODULE Spec2Model ----
(***************************************************************************)
(* Model of cricket_project/app.py: a Streamlit script that loads four CSV *)
(* files through a memoized loader (st.cache_data), back-fills the         *)
(* expected match columns, parses Start Date, and on every user            *)
(* interaction re-runs top to bottom, rendering the selected page.         *)
(*                                                                         *)
(* A DataFrame is a record [n, cols, dtypes]: n rows, cols maps a column   *)
(* name to the sequence of its n cells, dtypes maps it to the pandas dtype.*)
(* Text cells are strings.  NaN is the null read_csv produces for an empty *)
(* field, None the null load_data back-fills, NaT the null of a datetime   *)
(* column.  A parsed date is the tuple <<year, month, day>>.               *)
(***************************************************************************)
EXTENDS Integers, Sequences, FiniteSets, TLC

VARIABLES disk, readable, reads, cache, page, table_choice,
          button, status, nav, kpi, explore, charts, loadFailed

vars == <<disk, readable, reads, cache, page, table_choice,
          button, status, nav, kpi, explore, charts, loadFailed>>

(* ------------------------------ bounds --------------------------------- *)
MaxRows == 3      \* rows of the exhaustively enumerated match files
MaxBig == 21      \* rows of the largest generated match file
MaxReads == 3     \* cap on the per-file read counter

(* -------------------------- program constants -------------------------- *)
QuickRows == 10        \* matches.head(10)
HeadRows == 20         \* data_tables[table_choice].head(20)
TopK == 10             \* <counts>.head(10)
SMALL_QUICKSORT == 16  \* numpy npysort: below this size argsort is an insertion sort

NaN == "NaN"
None == "None"
NaT == <<>>
NA == "N/A"

IsNull(x) == x = NaN \/ x = None

ExpectedCols == {"Venue", "City", "Team 1", "Team 2", "Series",
                 "Match Category", "Start Date", "Toss Winner"}
ExtraCols == {"Match Id"}
FileNames == {"matches", "teams", "series", "venues"}
FileOrder == <<"matches", "teams", "series", "venues">>
Pages == {"Home", "KPIs & Metrics", "Visualizations", "User Profile"}
TableNames == <<"Matches", "Teams", "Series", "Venues">>
TableKey == [Matches |-> "matches", Teams |-> "teams", Series |-> "series", Venues |-> "venues"]

Min(a, b) == IF a < b THEN a ELSE b
Range(s) == {s[i] : i \in 1..Len(s)}

(* ------------------------------ test data ------------------------------ *)
\* Venue names in Python string order (used by Series.mode, which sorts).
VenueLex == <<"Eden", "Lords", "MCG",
              "V01", "V02", "V03", "V04", "V05", "V06", "V07", "V08",
              "V09", "V10", "V11", "V12", "V13", "V14", "V15", "V16",
              "V17", "V18", "V19", "V20", "V21", "V22", "V23">>
VNames == SubSeq(VenueLex, 4, Len(VenueLex))
TNames == <<"T01", "T02", "T03", "T04", "T05", "T06", "T07", "T08",
            "T09", "T10", "T11", "T12", "T13", "T14", "T15", "T16",
            "T17", "T18", "T19", "T20", "T21", "T22", "T23">>

Row(v, c, t1, t2, s, cat, d, toss, id) ==
    [c0 \in ExpectedCols \cup ExtraCols |->
        CASE c0 = "Venue" -> v
          [] c0 = "City" -> c
          [] c0 = "Team 1" -> t1
          [] c0 = "Team 2" -> t2
          [] c0 = "Series" -> s
          [] c0 = "Match Category" -> cat
          [] c0 = "Start Date" -> d
          [] c0 = "Toss Winner" -> toss
          [] OTHER -> id]

RowPool ==
    { Row("Lords", "London",  "IND", "ENG", "Pataudi", "live",      "2023-01-05", "IND", "m1"),
      Row("Eden",  "Kolkata", "AUS", "IND", "BGT",     "Live",      "not-a-date", NaN,   "m2"),
      Row("Lords", "London",  "ENG", "AUS", "Ashes",   "recent",    "2023-06-01", "AUS", "m3"),
      Row(NaN,     NaN,       NaN,   NaN,   NaN,       NaN,         NaN,          NaN,   "m4"),
      Row("MCG",   NaN,       "AUS", "ENG", "Ashes",   "UPCOMING",  "2024-03-10", "ENG", "m5"),
      Row("Eden",  "Kolkata", "IND", "AUS", "BGT",     "abandoned", "2022-12-26", "IND", "m6") }

RECURSIVE SeqsUpTo(_, _)
SeqsUpTo(S, k) ==
    IF k = 0 THEN {<<>>}
    ELSE LET shorter == SeqsUpTo(S, k - 1)
         IN shorter \cup {Append(s, x) : s \in {t \in shorter : Len(t) = k - 1}, x \in S}

\* A CSV file: the columns in `present`, one cell per row.
FromRows(rows, present) ==
    [n |-> Len(rows),
     cols |-> [c \in present |-> [i \in 1..Len(rows) |-> rows[i][c]]]]

Cycle(s, i) == s[((i - 1) % Len(s)) + 1]

\* Generated rows: `shape` 1 gives every row its own venue and teams (all
\* counts tie); shape 2 repeats the early venues so that counts differ.
BigRow(i, k, shape) ==
    Row(IF shape = 1 THEN VNames[i] ELSE VNames[IF i <= 6 THEN (i + 2) \div 3 ELSE i - 4],
        Cycle(<<"London", "Kolkata", NaN>>, i),
        TNames[i],
        IF shape = 1 THEN TNames[(i % k) + 1] ELSE Cycle(<<"T01", "T02">>, i),
        Cycle(<<"Ashes", "BGT", "Pataudi", NaN>>, i),
        Cycle(<<"live", "Recent", "upcoming", "LIVE", NaN>>, i),
        Cycle(<<"2023-01-05", "2021-07-14", "not-a-date", "2024-03-10", NaN>>, i),
        Cycle(<<"T01", NaN, "T02", "T03">>, i),
        "m0")

BigRows(k, shape) == [i \in 1..k |-> BigRow(i, k, shape)]
BigSizes == {TopK + 1, SMALL_QUICKSORT + 2, MaxBig}

SmallRowSeqs == SeqsUpTo(RowPool, MaxRows)
ScenarioRows ==
    { <<>>,
      <<Row("Lords", "London", "IND", "ENG", "Pataudi", "live", "2023-01-05", "IND", "m1")>>,
      <<Row(NaN, NaN, NaN, NaN, NaN, NaN, NaN, NaN, "m4"),
        Row(NaN, NaN, NaN, NaN, NaN, NaN, NaN, NaN, "m4")>>,
      <<Row("Lords", "London",  "IND", "ENG", "Pataudi", "live",   "2023-01-05", "IND", "m1"),
        Row("Eden",  "Kolkata", "AUS", "IND", "BGT",     "Live",   "not-a-date", NaN,   "m2"),
        Row("Lords", "London",  "ENG", "AUS", "Ashes",   "recent", "2023-06-01", "AUS", "m3")>> }

AllCols == ExpectedCols \cup ExtraCols
\* Every small file with all columns; a few files with every subset of the
\* expected columns missing; the generated large files.
MatchFiles ==
    {FromRows(r, AllCols) : r \in SmallRowSeqs}
    \cup {FromRows(r, AllCols \ m) : r \in ScenarioRows, m \in SUBSET ExpectedCols}
    \cup {FromRows(BigRows(k, sh), AllCols \ m) :
             k \in BigSizes, sh \in {1, 2}, m \in {{}, {"Toss Winner"}}}

\* teams.csv, series.csv, venues.csv: opaque tables with a name column.
NamedFile(k) == [n |-> k, cols |-> [c \in {"Name"} |-> [i \in 1..k |-> TNames[i]]]]
MainProfile == <<2, HeadRows, 0>>
OtherProfiles == { MainProfile, <<0, 2, HeadRows + 1>>, <<HeadRows + 1, 0, 2>> }

DiskOf(m, p) ==
    [matches |-> m, teams |-> NamedFile(p[1]), series |-> NamedFile(p[2]),
     venues |-> NamedFile(p[3])]

\* Every match file beside one set of the other files; the other sets beside
\* a few match files.
Disks ==
    {DiskOf(m, MainProfile) : m \in MatchFiles}
    \cup {DiskOf(FromRows(r, AllCols \ m), p) :
             r \in ScenarioRows, m \in {{}, {"Toss Winner"}}, p \in OtherProfiles}

(* ------------------------------- loader -------------------------------- *)
\* pd.read_csv (lines 11-14): a column whose every field is empty is
\* float64 NaN, any other column of the modelled files is text (object).
ReadCsv(f) ==
    [n |-> f.n, cols |-> f.cols,
     dtypes |-> [c \in DOMAIN f.cols |->
                   IF f.n > 0 /\ \A i \in 1..f.n : f.cols[c][i] = NaN
                   THEN "float64" ELSE "object"]]

\* variant: the missing columns are filled with an empty text instead of None
BackFill_mut(df) ==
    [n |-> df.n,
     cols |-> [c \in DOMAIN df.cols \cup ExpectedCols |->
                 IF c \in DOMAIN df.cols THEN df.cols[c]
                 ELSE [i \in 1..df.n |-> ""]],
     dtypes |-> [c \in DOMAIN df.cols \cup ExpectedCols |->
                 IF c \in DOMAIN df.cols THEN df.dtypes[c] ELSE "object"]]

\* lines 17-20: add each missing expected column, filled with None.
BackFill(df) ==
    [n |-> df.n,
     cols |-> [c \in DOMAIN df.cols \cup ExpectedCols |->
                 IF c \in DOMAIN df.cols THEN df.cols[c]
                 ELSE [i \in 1..df.n |-> None]],
     dtypes |-> [c \in DOMAIN df.cols \cup ExpectedCols |->
                 IF c \in DOMAIN df.cols THEN df.dtypes[c] ELSE "object"]]

\* What pandas' parser makes of the date strings of the test data.
ParseDate(s) ==
    CASE s = "2023-01-05" -> <<2023, 1, 5>>
      [] s = "2023-06-01" -> <<2023, 6, 1>>
      [] s = "2024-03-10" -> <<2024, 3, 10>>
      [] s = "2022-12-26" -> <<2022, 12, 26>>
      [] s = "2021-07-14" -> <<2021, 7, 14>>
      [] OTHER -> NaT

\* pd.to_datetime(col, errors='coerce') (line 23)
ToDatetime(col) == [i \in 1..Len(col) |-> ParseDate(col[i])]

ParseStartDate(df) ==
    [df EXCEPT !.cols["Start Date"] = ToDatetime(@),
               !.dtypes["Start Date"] = "datetime64"]

\* load_data body (lines 9-25), when every file can be read.
LoadData(d) ==
    [matches |-> ParseStartDate(BackFill(ReadCsv(d.matches))),
     teams |-> ReadCsv(d.teams),
     series |-> ReadCsv(d.series),
     venues |-> ReadCsv(d.venues)]

(* ---------------------------- aggregations ----------------------------- *)
\* Series.notnull().any()
NotNullAny(col) == \E i \in 1..Len(col) : ~IsNull(col[i])

Count(col, v) == Cardinality({i \in 1..Len(col) : col[i] = v})
NonNull(col) == {col[i] : i \in {j \in 1..Len(col) : ~IsNull(col[j])}}

\* Series.mode(): the non-null values of maximal count (returned sorted).
ModeValues(col) ==
    {v \in NonNull(col) : \A w \in NonNull(col) : Count(col, w) <= Count(col, v)}

LexRank(v) == CHOOSE i \in 1..Len(VenueLex) : VenueLex[i] = v

\* mode()[0]: the first of the sorted modes.
ModeFirst(col) ==
    CHOOSE v \in ModeValues(col) : \A w \in ModeValues(col) : LexRank(v) <= LexRank(w)

\* variant: no sentinel, the null is passed on
MostPlayedVenue_mut(m) ==
    IF NotNullAny(m.cols["Venue"]) THEN ModeFirst(m.cols["Venue"]) ELSE None

\* line 93
MostPlayedVenue(m) ==
    IF NotNullAny(m.cols["Venue"]) THEN ModeFirst(m.cols["Venue"]) ELSE NA

\* line 93: mode()[0] raises when mode() is empty
MostPlayedVenueRaises(m) ==
    NotNullAny(m.cols["Venue"]) /\ ModeValues(m.cols["Venue"]) = {}

\* str.lower() on the category texts of the test data.
Lower(s) ==
    CASE s = "Live" -> "live"
      [] s = "LIVE" -> "live"
      [] s = "Recent" -> "recent"
      [] s = "UPCOMING" -> "upcoming"
      [] OTHER -> s

\* Series.str.lower(): null stays null.
StrLower(col) == [i \in 1..Len(col) |-> IF IsNull(col[i]) THEN NaN ELSE Lower(col[i])]

\* variant: the comparison is made without str.lower()
CategoryCount_mut(m, label) ==
    IF NotNullAny(m.cols["Match Category"])
    THEN Cardinality({i \in 1..m.n : m.cols["Match Category"][i] = label})
    ELSE 0

\* lines 94-96: matches[matches[cat].str.lower() == label].shape[0] if ... else 0
CategoryCount(m, label) ==
    IF NotNullAny(m.cols["Match Category"])
    THEN Cardinality({i \in 1..m.n : StrLower(m.cols["Match Category"])[i] = label})
    ELSE 0

\* variant: .str is used without the notnull().any() guard
CategoryCountRaises_mut(m) == m.dtypes["Match Category"] # "object"

\* lines 94-96: the .str accessor raises AttributeError on a non-text column
CategoryCountRaises(m) ==
    NotNullAny(m.cols["Match Category"]) /\ m.dtypes["Match Category"] # "object"

\* DataFrame.head(k)
HeadDF(df, k) ==
    [n |-> Min(k, df.n),
     cols |-> [c \in DOMAIN df.cols |-> SubSeq(df.cols[c], 1, Min(k, df.n))],
     dtypes |-> df.dtypes]

\* variant: one row too many
HeadSeq_mut(s, k) == SubSeq(s, 1, Min(k + 1, Len(s)))

\* <frame>.head(k) of a frequency table
HeadSeq(s, k) == SubSeq(s, 1, Min(k, Len(s)))

(* value_counts: distinct non-null values in order of first appearance,   *)
(* then Series.sort_values(ascending=False), which argsorts the reversed   *)
(* counts with numpy's default kind (introsort: median-of-3 partitioning   *)
(* above SMALL_QUICKSORT elements, insertion sort below) and reverses.     *)
\* the distinct values of l followed by those of r not yet seen
MergeUniques(l, r) == l \o SelectSeq(r, LAMBDA x : x \notin Range(l))

RECURSIVE Uniques(_)
Uniques(col) ==
    IF Len(col) = 0 THEN <<>>
    ELSE IF Len(col) = 1 THEN (IF IsNull(col[1]) THEN <<>> ELSE <<col[1]>>)
    ELSE MergeUniques(Uniques(SubSeq(col, 1, Len(col) \div 2)),
                      Uniques(SubSeq(col, (Len(col) \div 2) + 1, Len(col))))

Swap(a, i, j) == [a EXCEPT ![i] = a[j], ![j] = a[i]]

RECURSIVE ScanUp(_, _, _, _)
ScanUp(v, a, pi, vp) ==
    IF v[a[pi + 1]] < vp THEN ScanUp(v, a, pi + 1, vp) ELSE pi + 1

RECURSIVE ScanDown(_, _, _, _)
ScanDown(v, a, pj, vp) ==
    IF vp < v[a[pj - 1]] THEN ScanDown(v, a, pj - 1, vp) ELSE pj - 1

RECURSIVE PartitionLoop(_, _, _, _, _)
\* after both scans: stop when the scans meet, else swap and go on
PartitionStep(v, a, i, j, vp) ==
    IF i >= j THEN <<a, i>> ELSE PartitionLoop(v, Swap(a, i, j), i, j, vp)

PartitionLoop(v, a, pi, pj, vp) ==
    PartitionStep(v, a, ScanUp(v, a, pi, vp), ScanDown(v, a, pj, vp), vp)

\* if (less(v[*hi], v[*lo])) swap(*hi, *lo)
OrderPair(v, a, lo, hi) == IF v[a[hi]] < v[a[lo]] THEN Swap(a, hi, lo) ELSE a

MedianOf3(v, a, pl, pm, pr) ==
    OrderPair(v, OrderPair(v, OrderPair(v, a, pl, pm), pm, pr), pl, pm)

\* the pivot goes back between the two parts
PlacePivot(res, pr) == <<Swap(res[1], res[2], pr - 1), res[2]>>

PartitionAround(v, a, pl, pm, pr) ==
    PlacePivot(PartitionLoop(v, Swap(a, pm, pr - 1), pl, pr - 1, v[a[pm]]), pr)

\* one partitioning step: <<permutation, pivot position>>
Partition(v, a, pl, pr) ==
    PartitionAround(v, MedianOf3(v, a, pl, pl + ((pr - pl) \div 2), pr),
                    pl, pl + ((pr - pl) \div 2), pr)

\* the number of slots of pl..pr whose entry the insertion sort leaves before
\* the entry of slot m: the smaller ones and the equal ones to its left
Rank(v, a, pl, pr, m) ==
    Cardinality({q \in pl..pr : v[a[q]] < v[a[m]] \/ (v[a[q]] = v[a[m]] /\ q < m)})

\* the slot each entry ends in; slots outside pl..pr are not touched
Slots(v, a, pl, pr) ==
    [m \in 1..Len(a) |->
        IF m < pl \/ m > pr THEN m ELSE pl + Rank(v, a, pl, pr, m)] \o <<>>

Place(a, slots) ==
    [k \in 1..Len(a) |-> a[CHOOSE m \in 1..Len(a) : slots[m] = k]] \o <<>>

\* the insertion sort of slots pl..pr: it moves an entry left only past
\* strictly greater ones, so equal entries keep their order
InsertionSort(v, a, pl, pr) == Place(a, Slots(v, a, pl, pr))

RECURSIVE AQuickSort(_, _, _, _)
\* both parts of a partitioning p are sorted in turn
SortParts(v, p, pl, pr) ==
    AQuickSort(v, AQuickSort(v, p[1], pl, p[2] - 1), p[2] + 1, pr)

AQuickSort(v, a, pl, pr) ==
    IF pr - pl > SMALL_QUICKSORT
    THEN SortParts(v, Partition(v, a, pl, pr), pl, pr)
    ELSE InsertionSort(v, a, pl, pr)

\* ndarray.argsort(kind='quicksort'): indices that sort v ascending
ArgSort(v) == AQuickSort(v, [i \in 1..Len(v) |-> i], 1, Len(v))

Reverse(s) == [i \in 1..Len(s) |-> s[Len(s) + 1 - i]]

\* pandas nargsort(items, kind, ascending=False)
NArgSortDesc(cnt) ==
    LET idx == Reverse([i \in 1..Len(cnt) |-> i])
        o == ArgSort(Reverse(cnt))
    IN Reverse([k \in 1..Len(cnt) |-> idx[o[k]]])

\* the counts of the keys, in key order
CountsOf(keys, col) == [i \in 1..Len(keys) |-> Count(col, keys[i])]

\* rows <<value, count>> in the order ord
Reindex(keys, cnt, ord) == [i \in 1..Len(keys) |-> <<keys[ord[i]], cnt[ord[i]]>>]

SortCounts(keys, cnt) == Reindex(keys, cnt, NArgSortDesc(cnt))

\* Series.value_counts().reset_index(): rows <<value, count>>
ValueCounts(col) == SortCounts(Uniques(col), CountsOf(Uniques(col), col))

\* pd.concat([matches['Team 1'], matches['Team 2']]) (lines 152, 189)
TeamColumn(m) == m.cols["Team 1"] \o m.cols["Team 2"]

RECURSIVE SortAsc(_)
SortAsc(S) ==
    IF S = {} THEN <<>>
    ELSE LET lo == CHOOSE x \in S : \A y \in S : x <= y
         IN <<lo>> \o SortAsc(S \ {lo})

\* variant: the groups come out in descending key order
OverYears_mut(m) ==
    LET col == m.cols["Start Date"]
        dated == {i \in 1..m.n : col[i] # NaT}
        ys == Reverse(SortAsc({col[i][1] : i \in dated}))
    IN [k \in 1..Len(ys) |-> <<ys[k], Cardinality({i \in dated : col[i][1] = ys[k]})>>]

\* line 159: groupby(Start Date .dt.year).size(): NaT keys are dropped,
\* groups come out in ascending key order.  Rows <<year, count>>.
OverYears(m) ==
    LET col == m.cols["Start Date"]
        dated == {i \in 1..m.n : col[i] # NaT}
        ys == SortAsc({col[i][1] : i \in dated})
    IN [k \in 1..Len(ys) |-> <<ys[k], Cardinality({i \in dated : col[i][1] = ys[k]})>>]

\* line 159: the .dt accessor raises AttributeError unless the column is datetime
OverYearsRaises(m) == m.dtypes["Start Date"] # "datetime64"

(* -------------------------------- pages -------------------------------- *)
\* lines 88-112 and 122-135
KPIs(t) ==
    [total_matches |-> t.matches.n,
     total_teams |-> t.teams.n,
     total_series |-> t.series.n,
     total_venues |-> t.venues.n,
     most_played_venue |-> MostPlayedVenue(t.matches),
     upcoming_matches |-> CategoryCount(t.matches, "upcoming"),
     live_matches |-> CategoryCount(t.matches, "live"),
     recent_matches |-> CategoryCount(t.matches, "recent"),
     quick |-> HeadDF(t.matches, QuickRows),
     category_counts |-> IF NotNullAny(t.matches.cols["Match Category"])
                         THEN <<ValueCounts(t.matches.cols["Match Category"])>>
                         ELSE <<>>]

\* variant: the table is shown whether or not the button was pressed
Explore_mut(t, tc, btn) == <<tc, HeadDF(t[TableKey[tc]], HeadRows)>>

\* lines 116-119: the table revealed by the Generate Table button
Explore(t, tc, btn) ==
    IF btn THEN <<tc, HeadDF(t[TableKey[tc]], HeadRows)>> ELSE <<>>

\* lines 145-193
Charts(t) ==
    [city_counts |-> ValueCounts(t.matches.cols["City"]),
     team_counts |-> HeadSeq(ValueCounts(TeamColumn(t.matches)), TopK),
     over_years |-> OverYears(t.matches),
     venue_counts |-> HeadSeq(ValueCounts(t.matches.cols["Venue"]), TopK),
     series_counts |-> HeadSeq(ValueCounts(t.matches.cols["Series"]), TopK),
     toss_counts |-> HeadSeq(ValueCounts(t.matches.cols["Toss Winner"]), TopK),
     team_detailed_counts |-> ValueCounts(TeamColumn(t.matches))]

\* the exception, if any, that a page branch raises
PageException(pg, t) ==
    IF pg = "KPIs & Metrics" /\ MostPlayedVenueRaises(t.matches) THEN "KeyError"
    ELSE IF pg = "KPIs & Metrics" /\ CategoryCountRaises(t.matches) THEN "AttributeError"
    ELSE IF pg = "Visualizations" /\ OverYearsRaises(t.matches) THEN "AttributeError"
    ELSE "none"

\* variant: the KPIs page truncates the match table in place
TablesAfterPage_mut(pg, t) ==
    IF pg = "KPIs & Metrics" THEN [t EXCEPT !.matches = HeadDF(@, QuickRows)] ELSE t

\* lines 59-212 assign to no loaded table
TablesAfterPage(pg, t) == t

(* ----------------------------- script run ------------------------------ *)
\* load_data reads the files in order and stops at the first unreadable one
RECURSIVE Attempted(_, _)
Attempted(rd, k) ==
    IF k > Len(FileOrder) THEN {}
    ELSE IF FileOrder[k] \in rd THEN {FileOrder[k]} \cup Attempted(rd, k + 1)
    ELSE {FileOrder[k]}

\* variant: load_data is not memoized
CacheHit_mut(c) == FALSE

\* @st.cache_data (line 8): a stored result is returned without running the body
CacheHit(c) == c # <<>>

\* variant: only the match file is required
AllReadable_mut(rd) == "matches" \in rd

\* lines 11-14: every read_csv call returns
AllReadable(rd) == rd = FileNames

\* One top-to-bottom run of the script for the widget values pg, tc, btn.
Run(pg, tc, btn) ==
    LET hit == CacheHit(cache)
        loaded == hit \/ AllReadable(readable)
        t == IF hit THEN cache[1] ELSE LoadData(disk)
    IN /\ hit \/ \A f \in FileNames : reads[f] < MaxReads
       /\ reads' = IF hit THEN reads
                   ELSE [f \in FileNames |->
                           IF f \in Attempted(readable, 1) THEN reads[f] + 1 ELSE reads[f]]
       /\ loadFailed' = (loadFailed \/ ~loaded)
       /\ button' = btn
       /\ IF ~loaded
          THEN /\ cache' = <<>>
               /\ status' = "FileNotFoundError"
               /\ nav' = FALSE
               /\ kpi' = <<>> /\ explore' = <<>> /\ charts' = <<>>
               /\ UNCHANGED <<page, table_choice>>
          ELSE /\ cache' = <<TablesAfterPage(pg, t)>>
               /\ nav' = TRUE
               /\ page' = pg
               /\ IF PageException(pg, t) # "none"
                  THEN /\ status' = PageException(pg, t)
                       /\ kpi' = <<>> /\ explore' = <<>> /\ charts' = <<>>
                       /\ UNCHANGED table_choice
                  ELSE /\ status' = "ok"
                       /\ table_choice' = IF pg = "KPIs & Metrics" THEN tc ELSE TableNames[1]
                       /\ kpi' = IF pg = "KPIs & Metrics" THEN <<KPIs(t)>> ELSE <<>>
                       /\ explore' = IF pg = "KPIs & Metrics" THEN Explore(t, tc, btn) ELSE <<>>
                       /\ charts' = IF pg = "Visualizations" THEN <<Charts(t)>> ELSE <<>>
       /\ UNCHANGED <<disk, readable>>

(* ------------------------------- actions ------------------------------- *)
\* the browser opens or reloads the app: a run with the current widget values
Refresh == Run(page, table_choice, FALSE)

\* the sidebar radio is changed (line 41)
Navigate(pg) == nav /\ pg # page /\ Run(pg, TableNames[1], FALSE)

\* the selectbox is changed (line 116)
SelectTable(tc) ==
    /\ status = "ok" /\ page = "KPIs & Metrics" /\ tc # table_choice
    /\ Run(page, tc, FALSE)

\* the Generate Table button is pressed (line 117)
PressButton ==
    /\ status = "ok" /\ page = "KPIs & Metrics"
    /\ Run(page, table_choice, TRUE)

\* the environment removes or restores an input file
RemoveFile(f) ==
    /\ f \in readable
    /\ readable' = readable \ {f}
    /\ UNCHANGED <<disk, reads, cache, page, table_choice, button, status, nav,
                   kpi, explore, charts, loadFailed>>

RestoreFile(f) ==
    /\ f \notin readable
    /\ readable' = readable \cup {f}
    /\ UNCHANGED <<disk, reads, cache, page, table_choice, button, status, nav,
                   kpi, explore, charts, loadFailed>>

InitSession ==
    /\ reads = [f \in FileNames |-> 0]
    /\ cache = <<>>
    /\ page = "Home"
    /\ table_choice = TableNames[1]
    /\ button = FALSE
    /\ status = "idle"
    /\ nav = FALSE
    /\ kpi = <<>> /\ explore = <<>> /\ charts = <<>>
    /\ loadFailed = FALSE

\* every input file is in place
Init == disk \in Disks /\ readable = FileNames /\ InitSession

Next ==
    \/ Refresh
    \/ \E pg \in Pages : Navigate(pg)
    \/ \E tc \in Range(TableNames) : SelectTable(tc)
    \/ PressButton

Spec == Init /\ [][Next]_vars

\* input files may be missing at any time
IODisks == {d \in Disks : d.matches \in {FromRows(r, AllCols \ {"Toss Winner"}) : r \in ScenarioRows}}

InitIO == disk \in IODisks /\ readable \in SUBSET FileNames /\ InitSession

NextIO ==
    \/ Next
    \/ \E f \in FileNames : RemoveFile(f)
    \/ \E f \in FileNames : RestoreFile(f)

SpecIO == InitIO /\ [][NextIO]_vars

(* ------------------------------ properties ----------------------------- *)
AllNull(col) == \A i \in 1..Len(col) : IsNull(col[i])
AllNaT(col) == \A i \in 1..Len(col) : col[i] = NaT
Loaded == cache[1].matches
Source == disk.matches

\* C1: after load_data, every expected column is in the match table with one
\* cell per row; a column absent from the file is null in every row; a
\* column present in the file keeps its source values, Start Date being
\* date-parsed; the other columns of the file are kept.
C1_ExpectedColumnsPresent ==
    cache # <<>> =>
        /\ Loaded.n = Source.n
        /\ DOMAIN Loaded.cols = DOMAIN Source.cols \cup ExpectedCols
        /\ \A c \in DOMAIN Loaded.cols :
              /\ Len(Loaded.cols[c]) = Source.n
              /\ IF c = "Start Date"
                 THEN \A i \in 1..Source.n :
                        Loaded.cols[c][i] =
                          IF c \in DOMAIN Source.cols
                          THEN ParseDate(Source.cols[c][i]) ELSE NaT
                 ELSE IF c \in DOMAIN Source.cols
                      THEN Loaded.cols[c] = Source.cols[c]
                      ELSE \A i \in 1..Source.n : IsNull(Loaded.cols[c][i])

C1_Witness ==
    /\ cache # <<>>
    /\ Source.n = 3
    /\ DOMAIN Source.cols = AllCols \ {"Toss Winner", "Start Date", "City"}
    /\ Loaded.cols["Toss Winner"] = <<None, None, None>>
    /\ Loaded.cols["Venue"] = <<"Lords", "Eden", "Lords">>

\* the spellings of a label that differ from it only in letter case
CaseVariants(label) ==
    CASE label = "live" -> {"live", "Live", "LIVE", "lIVE", "LiVe"}
      [] label = "recent" -> {"recent", "Recent", "RECENT"}
      [] label = "upcoming" -> {"upcoming", "Upcoming", "UPCOMING"}

RowsWithCategory(label) ==
    IF "Match Category" \in DOMAIN Source.cols
    THEN {i \in 1..Source.n : Source.cols["Match Category"][i] \in CaseVariants(label)}
    ELSE {}

\* C2: each KPI category count (upcoming, live, recent) is the number of rows
\* whose Match Category equals the label up to letter case, 0 when the column
\* is entirely null; each lies between 0 and the row count and the three
\* together do not exceed the row count.
C2_CategoryCounts ==
    kpi # <<>> =>
        LET k == kpi[1]
        IN /\ k.upcoming_matches = Cardinality(RowsWithCategory("upcoming"))
           /\ k.live_matches = Cardinality(RowsWithCategory("live"))
           /\ k.recent_matches = Cardinality(RowsWithCategory("recent"))
           /\ \A x \in {k.upcoming_matches, k.live_matches, k.recent_matches} :
                 x >= 0 /\ x <= k.total_matches
           /\ k.upcoming_matches + k.live_matches + k.recent_matches <= k.total_matches
           /\ AllNull(Loaded.cols["Match Category"]) =>
                 k.upcoming_matches = 0 /\ k.live_matches = 0 /\ k.recent_matches = 0

C2_Witness ==
    /\ kpi # <<>>
    /\ "Match Category" \in DOMAIN Source.cols
    /\ Source.cols["Match Category"] = <<"live", "Live", "recent">>
    /\ kpi[1].live_matches = 2
    /\ kpi[1].recent_matches = 1
    /\ kpi[1].upcoming_matches = 0

\* C3: the most played venue is a non-null venue whose number of occurrences
\* is maximal among the non-null venues; it is "N/A" when the column has no
\* non-null value, back-filled or not; computing it never raises and never
\* yields null.
C3_ModeOrSentinel ==
    /\ status # "KeyError"
    /\ (status = "ok" /\ page = "KPIs & Metrics") => kpi # <<>>
    /\ kpi # <<>> =>
        LET col == Loaded.cols["Venue"]
            v == kpi[1].most_played_venue
        IN /\ ~IsNull(v)
           /\ IF \E i \in 1..Len(col) : ~IsNull(col[i])
              THEN /\ \E i \in 1..Len(col) : col[i] = v
                   /\ \A w \in Range(col) : IsNull(w) \/ Count(col, w) <= Count(col, v)
              ELSE v = NA

C3_Witness ==
    /\ kpi # <<>>
    /\ "Venue" \notin DOMAIN Source.cols
    /\ Source.n > 0
    /\ kpi[1].most_played_venue = NA

RECURSIVE SumCounts(_)
SumCounts(tbl) == IF tbl = <<>> THEN 0 ELSE tbl[1][2] + SumCounts(Tail(tbl))

\* C4: the yearly series has exactly one entry per year occurring among the
\* rows with a non-null Start Date, with the number of such rows, in
\* ascending year order; rows whose date is null or failed to parse are in
\* no entry, so the counts sum to the number of dated rows; when every date
\* is null the series is empty and the page is still rendered.
C4_YearlySeries ==
    /\ (status = "ok" /\ page = "Visualizations") => charts # <<>>
    /\ charts # <<>> =>
        LET col == Loaded.cols["Start Date"]
            dated == {i \in 1..Len(col) : col[i] # NaT}
            oy == charts[1].over_years
        IN /\ {oy[k][1] : k \in 1..Len(oy)} = {col[i][1] : i \in dated}
           /\ \A k \in 1..Len(oy) :
                 oy[k][2] = Cardinality({i \in dated : col[i][1] = oy[k][1]})
           /\ \A k \in 1..(Len(oy) - 1) : oy[k][1] < oy[k + 1][1]
           /\ SumCounts(oy) = Cardinality(dated)
           /\ "Start Date" \in DOMAIN Source.cols =>
                 \A i \in 1..Source.n :
                    Source.cols["Start Date"][i] \in {"not-a-date", NaN} => i \notin dated
           /\ "Start Date" \notin DOMAIN Source.cols => dated = {}
           /\ dated = {} => oy = <<>>

C4_Witness ==
    /\ charts # <<>>
    /\ "Start Date" \in DOMAIN Source.cols
    /\ Source.cols["Start Date"] = <<"2023-01-05", "not-a-date", "2023-06-01">>
    /\ charts[1].over_years = << <<2023, 2>> >>

FirstIndex(col, v) == CHOOSE i \in 1..Len(col) : col[i] = v /\ \A j \in 1..(i - 1) : col[j] # v

\* tbl is a top-K table of col: at most K entries, each a distinct non-null
\* value with its count, counts descending, nothing omitted that has a
\* strictly higher count than an included value
TopKTable(tbl, col) ==
    /\ Len(tbl) = Min(TopK, Cardinality(NonNull(col)))
    /\ Len(tbl) <= TopK
    /\ \A i \in 1..Len(tbl) : tbl[i][1] \in NonNull(col) /\ tbl[i][2] = Count(col, tbl[i][1])
    /\ \A i, j \in 1..Len(tbl) : i # j => tbl[i][1] # tbl[j][1]
    /\ \A i \in 1..(Len(tbl) - 1) : tbl[i][2] >= tbl[i + 1][2]
    /\ \A w \in NonNull(col) :
          (\A i \in 1..Len(tbl) : tbl[i][1] # w) =>
             \A i \in 1..Len(tbl) : Count(col, w) <= tbl[i][2]

\* equal counts appear in order of first appearance in col
TiesByFirstAppearance(tbl, col) ==
    \A i, j \in 1..Len(tbl) :
       (i < j /\ tbl[i][2] = tbl[j][2]) => FirstIndex(col, tbl[i][1]) < FirstIndex(col, tbl[j][1])

C6_DegradedNeverRaises ==
    /\ status \in {"idle", "ok"}
    /\ (status = "ok" /\ page = "KPIs & Metrics") => kpi # <<>>
    /\ (status = "ok" /\ page = "Visualizations") => charts # <<>>
    /\ kpi # <<>> =>
        LET k == kpi[1]
        IN /\ \A x \in {k.total_matches, k.total_teams, k.total_series, k.total_venues,
                        k.upcoming_matches, k.live_matches, k.recent_matches} : x \in Nat
           /\ k.most_played_venue \in NonNull(Loaded.cols["Venue"]) \cup {NA}
           /\ AllNull(Loaded.cols["Venue"]) => k.most_played_venue = NA
           /\ AllNull(Loaded.cols["Match Category"]) =>
                 /\ k.upcoming_matches = 0 /\ k.live_matches = 0 /\ k.recent_matches = 0
                 /\ k.category_counts = <<>>
    /\ charts # <<>> =>
        LET ch == charts[1]
        IN /\ AllNull(Loaded.cols["City"]) => ch.city_counts = <<>>
           /\ AllNull(Loaded.cols["Venue"]) => ch.venue_counts = <<>>
           /\ AllNull(Loaded.cols["Series"]) => ch.series_counts = <<>>
           /\ AllNull(Loaded.cols["Toss Winner"]) => ch.toss_counts = <<>>
           /\ AllNull(TeamColumn(Loaded)) =>
                 ch.team_counts = <<>> /\ ch.team_detailed_counts = <<>>
           /\ AllNaT(Loaded.cols["Start Date"]) => ch.over_years = <<>>

C6_Witness ==
    /\ status = "ok"
    /\ kpi # <<>>
    /\ Source.n > 0
    /\ "Match Category" \in DOMAIN Source.cols
    /\ Loaded.dtypes["Match Category"] = "float64"
    /\ "Venue" \notin DOMAIN Source.cols
    /\ kpi[1].most_played_venue = NA
    /\ kpi[1].live_matches = 0

\* C7 (as amended): once load_data has succeeded, no later run reads any
\* file again: every later render gets the same four tables from the cache
\* and shows its page, even when the files have since disappeared.
C7_NoReadAfterLoad ==
    [][cache # <<>> =>
          /\ reads' = reads
          /\ cache' = cache
          /\ status' # "FileNotFoundError"
          /\ kpi' # <<>> => kpi'[1] = KPIs(cache[1])
          /\ charts' # <<>> => charts'[1] = Charts(cache[1])]_vars

C7_Witness ==
    /\ cache # <<>>
    /\ readable = {}
    /\ \A f \in FileNames : reads[f] = 1
    /\ button
    /\ explore # <<>>

\* C7 as stated: over any sequence of interactions each input file is read at
\* most once.
C7_Original == \A f \in FileNames : reads[f] <= 1

\* C8 (as amended): a run that has to load while some input file is missing
\* or unreadable fails and renders neither navigation nor page content; the
\* failure is not stored, so the next run loads again, and a run that loads
\* with all four files readable renders its page.
C8_FailedLoadNotCached ==
    [][reads' # reads =>
          IF readable = FileNames
          THEN status' = "ok" /\ nav' /\ cache' # <<>>
          ELSE /\ status' = "FileNotFoundError"
               /\ ~nav'
               /\ kpi' = <<>> /\ explore' = <<>> /\ charts' = <<>>
               /\ cache' = <<>>
               /\ loadFailed']_vars

C8_Witness ==
    /\ loadFailed
    /\ status = "ok"
    /\ nav
    /\ kpi # <<>>

\* C8 as stated: once a load has failed, no later run retries the load and no
\* later run shows navigation or a page.
C8_Original == [][loadFailed => (reads' = reads /\ ~nav')]_vars

\* C9: the loaded tables never change: whatever pages have been rendered, in
\* whatever order, the cached tables are those load_data produced from the
\* files, and every render of a page shows the KPIs and frequency tables
\* computed from them.
C9_TablesReadOnly ==
    cache # <<>> =>
        /\ cache[1] = LoadData(disk)
        /\ kpi # <<>> => kpi[1] = KPIs(LoadData(disk))
        /\ charts # <<>> => charts[1] = Charts(LoadData(disk))

C9_Witness ==
    /\ cache # <<>>
    /\ page = "Visualizations"
    /\ charts # <<>>
    /\ Loaded.n > QuickRows

\* C10: an Explore table is shown only in a run of the KPIs & Metrics page
\* caused by pressing Generate Table; it is then the table chosen in the
\* selector, cut to its first min(20, row count) rows; any other run shows
\* none.
C10_ExploreOnlyOnPress ==
    /\ (explore # <<>>) <=> (status = "ok" /\ page = "KPIs & Metrics" /\ button)
    /\ explore # <<>> =>
        LET tb == cache[1][TableKey[explore[1]]]
            shown == explore[2]
        IN /\ explore[1] = table_choice
           /\ explore[1] \in Range(TableNames)
           /\ shown.n = Min(HeadRows, tb.n)
           /\ DOMAIN shown.cols = DOMAIN tb.cols
           /\ \A c \in DOMAIN tb.cols :
                 /\ Len(shown.cols[c]) = shown.n
                 /\ \A i \in 1..shown.n : shown.cols[c][i] = tb.cols[c][i]

C10_Witness ==
    /\ explore # <<>>
    /\ explore[1] = "Venues"
    /\ cache[1].venues.n > HeadRows
    /\ explore[2].n = HeadRows

====
